---- MODULE Spec2Model ----
(***************************************************************************)
(* A model of zfs-win/BlockReader.cpp: BlockReader (Insert, Read, Verify,  *)
(* Decompress), BlockStream (ReadNext, ReadToEnd) and BlockFile (the       *)
(* constructor and Read).                                                  *)
(*                                                                         *)
(* Byte buffers (std::vector<uint8_t>) are sequences of runs.  A run       *)
(* [tok, off, len] stands for the len bytes off .. off+len-1 of the byte   *)
(* string the token tok names: one sector of a device ("raw"), zero bytes  *)
(* ("zero"), bytes the caller's buffer held before the call ("stale"),     *)
(* memory past the end of a buffer ("heap"), or the output of one          *)
(* decompressor over one source buffer.                                    *)
(*                                                                         *)
(* ASSERT is modelled as compiled out (the release build): the code after  *)
(* every ASSERT is written to run when the asserted condition is false.    *)
(***************************************************************************)
EXTENDS Integers, Sequences, FiniteSets, TLC

VARIABLES
    pc,        \* where the scenario stands; "crashed": the process has ended
    slots,     \* the disk's indirect sectors: content id -> the blkptr_t array stored there
    arg,       \* the arguments of the constructor or of the call under study
    m_bpl,     \* BlockReader::m_bpl, a sequence of [ptr, bp]
    heap,      \* the number of blkptr_t objects allocated so far (new blkptr_t)
    buff,      \* the caller's std::vector<uint8_t>: Read's dst, ReadNext's buff
    ret,       \* the value the last call returned: "none", "true", "false"
    out,       \* every ReadNext call so far: [ret, buff]
    m_psize,   \* BlockFile::m_psize
    m_lsize,   \* BlockFile::m_lsize
    m_cache,   \* BlockFile::m_cache: [bp, buff]
    dst,       \* the caller's dst: ReadToEnd's vector; the bytes BlockFile::Read copied to it
    io,        \* the device reads the last call issued: [vdev, offset, gang, ok]
    failed,    \* whether BlockReader::Read returned false within the last call
    call,      \* the arguments of the last BlockFile::Read call: [size, offset]
    ub         \* the first undefined behaviour executed so far: "none" or what it was

vars == <<pc, slots, arg, m_bpl, heap, buff, ret, out, m_psize, m_lsize, m_cache, dst, io, failed, call,
          ub>>

-----------------------------------------------------------------------------
(* Program constants *)

\* "<< 9": sizes and offsets are counted in sectors of 512 bytes
SectorShift == 9
SectorSize == 2 ^ SectorShift
\* sizeof(blkptr_t)
BlkptrSize == 128
\* for(int i = 0; i < 3; i++): the addresses of one descriptor
NumDvas == 3

-----------------------------------------------------------------------------
(* Bounds *)

\* descriptors handed to a constructor
MaxRoots == 2
\* ReadNext calls on one stream
MaxCalls == 6

\* sectors on each device of the pool
DevSectors == 6
\* psize and lsize fields range over 0 .. MaxSizeField (sectors minus one)
MaxSizeField == 1

-----------------------------------------------------------------------------
(* Byte buffers *)

ZeroTok == [k |-> "zero", c |-> 0, src |-> <<>>]
RawTok(c) == [k |-> "raw", c |-> c, src |-> <<>>]
StaleTok == [k |-> "stale", c |-> 0, src |-> <<>>]
DecTok(codec, src) == [k |-> codec, c |-> 0, src |-> src]

Run(tok, off, len) == [tok |-> tok, off |-> IF tok.k = "zero" THEN 0 ELSE off, len |-> len]

\* the concatenation of two buffers, adjacent runs of one byte string merged
Cat(a, b) ==
    IF a = <<>> THEN b
    ELSE IF b = <<>> THEN a
    ELSE LET x == a[Len(a)]
             y == b[1]
         IN  IF x.tok = y.tok /\ (x.tok.k = "zero" \/ x.off + x.len = y.off)
             THEN SubSeq(a, 1, Len(a) - 1) \o <<[x EXCEPT !.len = x.len + y.len]>> \o Tail(b)
             ELSE a \o b

RECURSIVE BLen(_)
\* vector::size()
BLen(b) == IF b = <<>> THEN 0 ELSE b[1].len + BLen(Tail(b))

RECURSIVE BSlice(_, _, _)
\* the n bytes of b from byte from on (fewer when b ends before)
BSlice(b, from, n) ==
    IF b = <<>> \/ n <= 0 THEN <<>>
    ELSE LET r == b[1]
         IN  IF from >= r.len THEN BSlice(Tail(b), from - r.len, n)
             ELSE LET take == IF n < r.len - from THEN n ELSE r.len - from
                  IN  Cat(<<Run(r.tok, r.off + from, take)>>, BSlice(Tail(b), 0, n - take))

Zeros(n) == IF n = 0 THEN <<>> ELSE <<Run(ZeroTok, 0, n)>>
Stale(n) == IF n = 0 THEN <<>> ELSE <<Run(StaleTok, 0, n)>>

Min(a, b) == IF a < b THEN a ELSE b

-----------------------------------------------------------------------------
(* The pool and its devices *)

\* Pool::m_vdevs: the ids of the devices of the pool
VdevIds == {0, 1}

\* what each sector of each device holds (a content id); device 1 mirrors
\* device 0, its sector 1 corrupted
DevSector(v, s) == IF v = 1 /\ s = 1 THEN 9 ELSE s + 1

RECURSIVE DevBytes(_, _, _)
DevBytes(v, s, n) ==
    IF n = 0 THEN <<>> ELSE <<Run(RawTok(DevSector(v, s)), 0, SectorSize)>> \o DevBytes(v, s + 1, n - 1)

\* VirtualDevice::Read(buff, size, offset): fills buff from the device; fails,
\* leaving the buffer as it was, on an access out of range
VdevRead(v, src, size, offset) ==
    IF offset + size <= DevSectors * SectorSize
    THEN [ok |-> TRUE, buff |-> DevBytes(v, offset \div SectorSize, size \div SectorSize)]
    ELSE [ok |-> FALSE, buff |-> src]

-----------------------------------------------------------------------------
(* Checksums and codecs (Hash.h, Compress.h): pure functions of their input *)

fletcher_2_native(b) == [f |-> "fletcher2", d |-> b]
fletcher_4_native(b) == [f |-> "fletcher4", d |-> b]
sha256(b) == [f |-> "sha256", d |-> b]

\* a codec writes lsize bytes through the pointer it is given: the lsize
\* bytes src decodes to
Decoded(codec, src, lsize) == <<Run(DecTok(codec, src), 0, lsize)>>

-----------------------------------------------------------------------------
(* BlockReader::Verify *)

Verify(b, cksum_type, cksum) ==
    CASE cksum_type = "ZIO_CHECKSUM_OFF" -> TRUE
      [] cksum_type \in {"ZIO_CHECKSUM_ON", "ZIO_CHECKSUM_ZILOG", "ZIO_CHECKSUM_FLETCHER_2"} ->
            cksum = fletcher_2_native(b)
      [] cksum_type \in {"ZIO_CHECKSUM_ZILOG2", "ZIO_CHECKSUM_FLETCHER_4"} ->
            cksum = fletcher_4_native(b)
      [] cksum_type \in {"ZIO_CHECKSUM_LABEL", "ZIO_CHECKSUM_GANG_HEADER", "ZIO_CHECKSUM_SHA256"} ->
            cksum = sha256(b)
      [] OTHER -> FALSE

-----------------------------------------------------------------------------
(* BlockReader::Decompress *)

GzipCodes == {"ZIO_COMPRESS_GZIP_1", "ZIO_COMPRESS_GZIP_2", "ZIO_COMPRESS_GZIP_3",
              "ZIO_COMPRESS_GZIP_4", "ZIO_COMPRESS_GZIP_5", "ZIO_COMPRESS_GZIP_6",
              "ZIO_COMPRESS_GZIP_7", "ZIO_COMPRESS_GZIP_8", "ZIO_COMPRESS_GZIP_9"}

\* a codec writing lsize bytes through d.data() of a vector that was not
\* resized: the vector keeps its size; writing past its end is undefined
InPlace(codec, src, d, lsize) ==
    [ret |-> TRUE,
     dst |-> Cat(BSlice(Decoded(codec, src, lsize), 0, BLen(d)), BSlice(d, lsize, BLen(d) - lsize)),
     ub  |-> IF lsize > BLen(d) THEN "overflow" ELSE "none"]

\* [ret, dst, ub]: the value returned, dst after the call, and whether the
\* call wrote past the end of dst
Decompress(src, d, lsize, comp_type) ==
    CASE comp_type \in {"ZIO_COMPRESS_ON", "ZIO_COMPRESS_LZJB"} ->
            [ret |-> TRUE, dst |-> Decoded("lzjb", src, lsize), ub |-> "none"]
      [] comp_type \in {"ZIO_COMPRESS_OFF", "ZIO_COMPRESS_EMPTY"} ->
            [ret |-> TRUE, dst |-> src, ub |-> "none"]
      [] comp_type \in GzipCodes -> InPlace("gzip", src, d, lsize)
      [] comp_type = "ZIO_COMPRESS_ZLE" -> InPlace("zle", src, d, lsize)
      [] OTHER -> [ret |-> FALSE, dst |-> d, ub |-> "none"]

-----------------------------------------------------------------------------
(* BlockReader::Read *)

PSize(bp) == (bp.psize + 1) * SectorSize
LSize(bp) == (bp.lsize + 1) * SectorSize

\* the device read of address i of bp: std::vector<uint8_t> src(psize);
\* vdev->Read(src, psize, addr->offset << 9)
AddrRead(bp, i) ==
    VdevRead(bp.blk_dva[i].vdev, Zeros(PSize(bp)), PSize(bp), bp.blk_dva[i].offset * SectorSize)

IoRec(bp, i) ==
    [vdev |-> bp.blk_dva[i].vdev, offset |-> bp.blk_dva[i].offset,
     gang |-> bp.blk_dva[i].gang, ok |-> AddrRead(bp, i).ok]

RECURSIVE ReadFrom(_, _, _, _)

\* address i passed Verify and Decompress returned dec
Decompressed(i, d, bp, log, dec) ==
    IF dec.ret
    THEN [ret |-> TRUE, dst |-> dec.dst, ub |-> dec.ub, k |-> i, io |-> log]
    ELSE ReadFrom(i + 1, d, bp, log)

\* the device of address i exists and src is what was read from it
Fetched(i, d, bp, log, src) ==
    IF Verify(src, bp.cksum_type, bp.cksum)
    THEN Decompressed(i, d, bp, log, Decompress(src, d, LSize(bp), bp.comp_type))
    ELSE ReadFrom(i + 1, d, bp, log)

\* the loop over the addresses, from address i on; log collects the device reads
ReadFrom(i, d, bp, log) ==
    IF i > NumDvas THEN [ret |-> FALSE, dst |-> d, ub |-> "none", k |-> 0, io |-> log]
    ELSE IF bp.blk_dva[i].vdev \notin VdevIds THEN ReadFrom(i + 1, d, bp, log)
    ELSE Fetched(i, d, bp, Append(log, IoRec(bp, i)), AddrRead(bp, i).buff)

\* bool BlockReader::Read(std::vector<uint8_t>& dst, blkptr_t* bp):
\* [ret, dst, ub, k, io], k the address that served the call (0: none)
Read(d, bp) == ReadFrom(1, d, bp, <<>>)

-----------------------------------------------------------------------------
(* The blkptr_t array a buffer holds *)

\* an all-zero descriptor; its type is DMU_OT_NONE (0)
ZeroBp ==
    [blk_dva |-> <<[vdev |-> 0, offset |-> 0, gang |-> 0], [vdev |-> 0, offset |-> 0, gang |-> 0],
                   [vdev |-> 0, offset |-> 0, gang |-> 0]>>,
     psize |-> 0, lsize |-> 0, type |-> "DMU_OT_NONE", lvl |-> 0,
     cksum_type |-> "ZIO_CHECKSUM_INHERIT", cksum |-> sha256(<<>>), comp_type |-> "ZIO_COMPRESS_INHERIT"]

\* the array the run r spells out: an indirect sector stored uncompressed
\* spells its array as it is; the bytes a codec decodes from one indirect
\* sector stored in that codec's format spell that sector's array, then zeros
ArrayOf(r) ==
    LET t == r.tok
    IN  IF t.k = "raw" /\ t.c \in DOMAIN slots /\ slots[t.c].codec = "raw"
        THEN slots[t.c].bps
        ELSE IF /\ t.k \notin {"raw", "zero", "stale"}
                /\ t.src # <<>>
                /\ t.src[1].tok.k = "raw"
                /\ t.src[1].off = 0
                /\ t.src[1].tok.c \in DOMAIN slots
                /\ slots[t.src[1].tok.c].codec = t.k
        THEN slots[t.src[1].tok.c].bps
        ELSE <<>>

\* the descriptor at byte o of b
BlkptrAt(b, o) ==
    LET piece == BSlice(b, o, BlkptrSize)
    IN  IF Len(piece) # 1 \/ piece[1].len # BlkptrSize \/ piece[1].off % BlkptrSize # 0
        THEN ZeroBp
        ELSE LET a == ArrayOf(piece[1])
                 i == (piece[1].off \div BlkptrSize) + 1
             IN  IF i <= Len(a) THEN a[i] ELSE ZeroBp

\* the array Insert is given: buff.data() cast to blkptr_t, buff.size() / sizeof(blkptr_t) long
Blkptrs(b) == [i \in 1 .. (BLen(b) \div BlkptrSize) |-> BlkptrAt(b, (i - 1) * BlkptrSize)]

-----------------------------------------------------------------------------
(* BlockReader::Insert *)

\* a filter that drops no slot
KeepsAll(bp) == TRUE

IsLive(bp) == bp.type # "DMU_OT_NONE"

\* the copies Insert allocates: new blkptr_t(bp[i]) for every live bp[i]
NewCopies(h, bps) ==
    LET live == SelectSeq(bps, IsLive)
    IN  [i \in 1 .. Len(live) |-> [ptr |-> h + i, bp |-> live[i]]]

\* an insertion that appends whatever the queue holds
InsertAtBack(bpl, h, bps) == [bpl |-> bpl \o NewCopies(h, bps), heap |-> h + Len(NewCopies(h, bps))]

\* void BlockReader::Insert(blkptr_t* bp, size_t count): [bpl, heap]
Insert(bpl, h, bps) ==
    IF bpl = <<>>
    THEN [bpl |-> bpl \o NewCopies(h, bps), heap |-> h + Len(NewCopies(h, bps))]
    ELSE [bpl |-> NewCopies(h, bps) \o bpl, heap |-> h + Len(NewCopies(h, bps))]

-----------------------------------------------------------------------------
(* BlockStream::ReadNext *)

FirstUb(u, v) == IF u # "none" THEN u ELSE v

RECURSIVE Descend(_, _, _, _, _, _)

\* the body of while(bp->lvl > 0) after Read(buff, bp) returned r: Insert the
\* array in buff, take and pop the front; m_bpl.front() of an empty queue is
\* undefined, and ends the model of the call there
Expand(ins, r, log, u) ==
    IF ins.bpl = <<>>
    THEN [ret |-> FALSE, bpl |-> ins.bpl, heap |-> ins.heap, buff |-> r.dst,
          ub |-> "front_of_empty", io |-> log \o r.io, fail |-> FALSE]
    ELSE Descend(Tail(ins.bpl), ins.heap, r.dst, Head(ins.bpl).bp, log \o r.io, FirstUb(u, r.ub))

\* one turn of ReadNext with bp popped from the queue and r what Read(buff, bp) returned
Step(bpl, h, bp, log, u, r) ==
    IF bp.lvl > 0
    THEN IF ~r.ret
         THEN [ret |-> FALSE, bpl |-> bpl, heap |-> h, buff |-> r.dst, ub |-> u, io |-> log \o r.io,
               fail |-> TRUE]
         ELSE Expand(Insert(bpl, h, Blkptrs(r.dst)), r, log, u)
    ELSE [ret |-> r.ret, bpl |-> bpl, heap |-> h, buff |-> r.dst, ub |-> FirstUb(u, r.ub),
          io |-> log \o r.io, fail |-> ~r.ret]

\* the loop while(bp->lvl > 0) and the final Read, with bp popped from the queue
Descend(bpl, h, b, bp, log, u) == Step(bpl, h, bp, log, u, Read(b, bp))

\* bool BlockStream::ReadNext(std::vector<uint8_t>& buff): [ret, bpl, heap, buff, ub, io, fail]
ReadNext(bpl, h, b) ==
    IF bpl = <<>>
    THEN [ret |-> FALSE, bpl |-> bpl, heap |-> h, buff |-> b, ub |-> "none", io |-> <<>>,
          fail |-> FALSE]
    ELSE Descend(Tail(bpl), h, b, Head(bpl).bp, <<>>, "none")

-----------------------------------------------------------------------------
(* BlockStream::ReadToEnd *)

RECURSIVE ReadLoop(_, _, _, _, _, _)

\* one turn of while(ReadNext(buff)) { append buff to dst }, r what ReadNext returned
Turn(acc, log, u, r) ==
    IF r.ret /\ r.ub # "front_of_empty"
    THEN ReadLoop(r.bpl, r.heap, r.buff, Cat(acc, r.buff), log \o r.io, FirstUb(u, r.ub))
    ELSE [ret |-> TRUE, bpl |-> r.bpl, heap |-> r.heap, dst |-> acc, ub |-> FirstUb(u, r.ub),
          io |-> log \o r.io, fail |-> r.fail]

\* the loop of ReadToEnd: acc is dst, b the local buff
ReadLoop(bpl, h, b, acc, log, u) == Turn(acc, log, u, ReadNext(bpl, h, b))

\* bool BlockStream::ReadToEnd(std::vector<uint8_t>& dst): [ret, bpl, heap, dst, ub, io, fail]
ReadToEnd(bpl, h) == ReadLoop(bpl, h, <<>>, <<>>, <<>>, "none")

-----------------------------------------------------------------------------
(* BlockFile::BlockFile *)

RECURSIVE Flatten(_, _, _, _, _, _, _)
RECURSIVE Sink(_, _, _, _, _, _, _, _)

\* the body of while(bp->lvl > 0) after __super::Read(buff, bp) returned r
\* into a fresh buff: on failure the constructor returns with m_bpl, m_psize
\* and m_lsize as they stand and m_cache.bp never written
Expanded(bpl, h, l, ps, ls, log, u, r) ==
    IF ~r.ret
    THEN [done |-> FALSE, bpl |-> bpl, heap |-> h, psize |-> ps, lsize |-> ls, ub |-> u,
          io |-> log \o r.io, fail |-> TRUE]
    ELSE IF Insert(bpl, h, Blkptrs(r.dst)).bpl = <<>>
    THEN [done |-> FALSE, bpl |-> <<>>, heap |-> h, psize |-> ps, lsize |-> ls,
          ub |-> "front_of_empty", io |-> log \o r.io, fail |-> FALSE]
    ELSE Sink(Tail(Insert(bpl, h, Blkptrs(r.dst)).bpl), Insert(bpl, h, Blkptrs(r.dst)).heap,
              Head(Insert(bpl, h, Blkptrs(r.dst)).bpl), l, ps, ls, log \o r.io, FirstUb(u, r.ub))

\* with e popped from the queue: the loop while(bp->lvl > 0), then the sums
\* and l.push_back
Sink(bpl, h, e, l, ps, ls, log, u) ==
    IF e.bp.lvl > 0
    THEN Expanded(bpl, h, l, ps, ls, log, u, Read(<<>>, e.bp))
    ELSE Flatten(bpl, h, Append(l, e), ps + e.bp.psize + 1, ls + e.bp.lsize + 1, log, u)

\* the loop while(!m_bpl.empty()), then the shifts and the swap
Flatten(bpl, h, l, ps, ls, log, u) ==
    IF bpl = <<>>
    THEN [done |-> TRUE, bpl |-> l, heap |-> h, psize |-> ps * SectorSize, lsize |-> ls * SectorSize,
          ub |-> u, io |-> log, fail |-> FALSE]
    ELSE Sink(Tail(bpl), h, Head(bpl), l, ps, ls, log, u)

\* BlockFile::BlockFile(Pool* pool, blkptr_t* bp, size_t count):
\* [done, bpl, heap, psize, lsize, ub, io, fail], done: the constructor ran to its end
BlockFile(bps) == Flatten(Insert(<<>>, 0, bps).bpl, Insert(<<>>, 0, bps).heap, <<>>, 0, 0, <<>>, "none")

-----------------------------------------------------------------------------
(* BlockFile::Read *)

\* uint64_t values of 2^63 and more are written v - 2^64: -1 is 2^64 - 1.
\* Sums and differences of values near 0 and near 2^64 are then those of the
\* integers, and a < b on uint64_t is ULt(a, b).
\* (a < b on int64_t is:)
SLt(a, b) == a < b

ULt(a, b) == IF (a < 0) = (b < 0) THEN a < b ELSE b < 0

\* Pool::Read(buff, bp, 1): the pool's resolution of one descriptor, of the
\* same contract as BlockReader::Read
PoolRead(d, bp) == Read(d, bp)

\* the bytes memcpy(p, buff.data() + from, n) copies; past the end of buff
\* it reads memory that is not the buffer's
HeapTok == [k |-> "heap", c |-> 0, src |-> <<>>]
Copied(b, from, n) ==
    IF from + n <= BLen(b) THEN BSlice(b, from, n)
    ELSE BSlice(b, from, n) \o <<Run(HeapTok, from + BLen(BSlice(b, from, n)) - BLen(b), n - BLen(BSlice(b, from, n)))>>

Overread(b, from, n) == IF n > 0 /\ from + n > BLen(b) THEN "overread" ELSE "none"

\* a comparison that never finds the leaf cached
NeverCached(cache, e) == FALSE

\* m_cache.bp == bp: the cache holds the leaf of index entry e
Cached(cache, e) == cache.bp = e.ptr

RECURSIVE Rest(_, _, _, _, _, _, _)

\* the body of the inner while loop on leaf i once the cache holds it
RestCopy(bpl, i, cache, size, d, log, u) ==
    Rest(bpl, i, cache, size - Min(size, LSize(bpl[i].bp)),
         d \o Copied(cache.buff, 0, Min(size, LSize(bpl[i].bp))), log,
         FirstUb(u, Overread(cache.buff, 0, Min(size, LSize(bpl[i].bp)))))

\* the inner loop refreshing the cache for leaf i: r is what __super::Read returned
RestRead(bpl, i, cache, size, d, log, u, r) ==
    IF ~r.ret
    THEN [ret |-> FALSE, cache |-> [cache EXCEPT !.buff = r.dst], dst |-> d, io |-> log \o r.io,
          ub |-> u, fail |-> TRUE]
    ELSE RestCopy(bpl, i, [bp |-> bpl[i].ptr, buff |-> r.dst], size, d, log \o r.io, FirstUb(u, r.ub))

\* while(size > 0 && ++i != m_bpl.end()) with i the leaf before; return size == 0
Rest(bpl, i, cache, size, d, log, u) ==
    IF size > 0 /\ i + 1 <= Len(bpl)
    THEN IF ~Cached(cache, bpl[i + 1])
         THEN RestRead(bpl, i + 1, cache, size, d, log, u, Read(cache.buff, bpl[i + 1].bp))
         ELSE RestCopy(bpl, i + 1, cache, size, d, log, u)
    ELSE [ret |-> size = 0, cache |-> cache, dst |-> d, io |-> log, ub |-> u, fail |-> FALSE]

\* leaf i holds offset and the cache holds leaf i: the first memcpy
FirstCopy(bpl, i, cache, size, offset, lstart, log, u) ==
    Rest(bpl, i, cache, size - Min(size, lstart + LSize(bpl[i].bp) - offset),
         Copied(cache.buff, offset - lstart, Min(size, lstart + LSize(bpl[i].bp) - offset)), log,
         FirstUb(u, Overread(cache.buff, offset - lstart, Min(size, lstart + LSize(bpl[i].bp) - offset))))

\* leaf i holds offset and is not the cached one: r is what m_pool->Read returned
FirstRead(bpl, i, cache, size, offset, lstart, r) ==
    IF ~r.ret
    THEN [ret |-> FALSE, cache |-> [cache EXCEPT !.buff = r.dst], dst |-> <<>>, io |-> r.io,
          ub |-> "none", fail |-> TRUE]
    ELSE FirstCopy(bpl, i, [bp |-> bpl[i].ptr, buff |-> r.dst], size, offset, lstart, r.io, r.ub)

RECURSIVE Seek(_, _, _, _, _, _)
\* for(auto i = m_bpl.begin(); i != m_bpl.end(); i++) from leaf i on
Seek(bpl, i, cache, size, offset, lstart) ==
    IF i > Len(bpl)
    THEN [ret |-> FALSE, cache |-> cache, dst |-> <<>>, io |-> <<>>, ub |-> "none", fail |-> FALSE]
    ELSE IF ULt(offset, lstart + LSize(bpl[i].bp))
    THEN IF ~Cached(cache, bpl[i])
         THEN FirstRead(bpl, i, cache, size, offset, lstart, PoolRead(cache.buff, bpl[i].bp))
         ELSE FirstCopy(bpl, i, cache, size, offset, lstart, <<>>, "none")
    ELSE Seek(bpl, i + 1, cache, size, offset, lstart + LSize(bpl[i].bp))

\* bool BlockFile::Read(void* dst, size_t size, uint64_t offset):
\* [ret, cache, dst, io, ub, fail], dst the bytes copied to the caller's dst
BlockFile_Read(bpl, cache, lsize, size, offset) ==
    IF ULt(lsize, offset + size)
    THEN [ret |-> FALSE, cache |-> cache, dst |-> <<>>, io |-> <<>>, ub |-> "none", fail |-> FALSE]
    ELSE Seek(bpl, 1, cache, size, offset, 0)

-----------------------------------------------------------------------------
(* Descriptors *)

Dva(v, o, g) == [vdev |-> v, offset |-> o, gang |-> g]

\* the checksum cksum_type asks for, over the bytes b
CksumOf(cksum_type, b) ==
    CASE cksum_type \in {"ZIO_CHECKSUM_ON", "ZIO_CHECKSUM_ZILOG", "ZIO_CHECKSUM_FLETCHER_2"} ->
            fletcher_2_native(b)
      [] cksum_type \in {"ZIO_CHECKSUM_ZILOG2", "ZIO_CHECKSUM_FLETCHER_4"} -> fletcher_4_native(b)
      [] OTHER -> sha256(b)

\* a descriptor of the block stored at sector sec of device 0 (mirrored on
\* device 1), its checksum that of the copy on device 0
Blkptr(dvas, sec, psize, lsize, type, lvl, cksum_type, comp_type) ==
    [blk_dva |-> dvas, psize |-> psize, lsize |-> lsize, type |-> type, lvl |-> lvl,
     cksum_type |-> cksum_type,
     cksum |-> CksumOf(cksum_type, DevBytes(0, sec, psize + 1)),
     comp_type |-> comp_type]

-----------------------------------------------------------------------------
(* Objects not under study in a scenario keep these values *)

NoCache == [bp |-> 0, buff |-> <<>>]

NoReader == /\ m_bpl = <<>>
            /\ heap = 0
            /\ out = <<>>
            /\ slots = <<>>

NoCall == [size |-> 0, offset |-> 0]

NoFile == /\ m_psize = 0
          /\ m_lsize = 0
          /\ m_cache = NoCache
          /\ call = NoCall

-----------------------------------------------------------------------------
(* Scenario: one BlockReader::Read call on one descriptor *)

\* the addresses a descriptor of the block at sector 1 may carry: a device
\* the pool does not have, the good copy, the corrupted copy, the good copy
\* behind a gang flag, an offset past the end of the device
ResolveDvas == {Dva(2, 1, 0), Dva(0, 1, 0), Dva(1, 1, 0), Dva(0, 1, 1), Dva(0, DevSectors, 0)}

ResolveCksums == {"ZIO_CHECKSUM_OFF", "ZIO_CHECKSUM_ON", "ZIO_CHECKSUM_FLETCHER_4",
                  "ZIO_CHECKSUM_SHA256", "ZIO_CHECKSUM_INHERIT"}

ResolveComps == {"ZIO_COMPRESS_LZJB", "ZIO_COMPRESS_OFF", "ZIO_COMPRESS_GZIP_6",
                 "ZIO_COMPRESS_ZLE", "ZIO_COMPRESS_INHERIT"}

ResolveBps ==
    { Blkptr(<<a, b, c>>, 1, ps, ls, "DMU_OT_PLAIN_FILE_CONTENTS", 0, ck, co) :
        a \in ResolveDvas, b \in ResolveDvas, c \in ResolveDvas,
        ps \in 0 .. MaxSizeField, ls \in 0 .. MaxSizeField,
        ck \in ResolveCksums, co \in ResolveComps }

InitResolve ==
    /\ pc = "new"
    /\ arg \in ResolveBps
    /\ buff \in {Stale(n * SectorSize) : n \in 0 .. MaxSizeField + 1}
    /\ ret = "none"
    /\ io = <<>>
    /\ failed = FALSE
    /\ ub = "none"
    /\ dst = <<>>
    /\ NoReader
    /\ NoFile

Bool(b) == IF b THEN "true" ELSE "false"

\* the call returns
ResolveReturns ==
    /\ pc = "new"
    /\ LET r == Read(buff, arg)
       IN  /\ pc' = "resolved"
           /\ buff' = r.dst
           /\ ret' = Bool(r.ret)
           /\ io' = r.io
           /\ failed' = ~r.ret
           /\ ub' = r.ub
    /\ UNCHANGED <<slots, arg, m_bpl, heap, out, m_psize, m_lsize, m_cache, dst, call>>

\* the write past the end of dst ends the process
ResolveCrashes ==
    /\ pc = "new"
    /\ LET r == Read(buff, arg)
       IN  /\ r.ub # "none"
           /\ pc' = "crashed"
           /\ io' = r.io
           /\ ub' = r.ub
    /\ UNCHANGED <<slots, arg, m_bpl, heap, buff, ret, out, m_psize, m_lsize, m_cache, dst, failed, call>>

NextResolve == ResolveReturns \/ ResolveCrashes

SpecResolve == InitResolve /\ [][NextResolve]_vars

-----------------------------------------------------------------------------
(* The descriptors and trees of the stream and file scenarios.  Sectors 0, *)
(* 1 and 2 hold data; sector 3 holds a level-1 array, sector 4 a level-2   *)
(* array, both stored in lzjb format.                                      *)

Mirrored(sec) == <<Dva(0, sec, 0), Dva(1, sec, 0), Dva(2, sec, 0)>>
Nowhere(sec) == <<Dva(2, sec, 0), Dva(3, sec, 0), Dva(2, sec, 0)>>

Hole == ZeroBp
LeafA == Blkptr(Mirrored(0), 0, 0, 0, "DMU_OT_PLAIN_FILE_CONTENTS", 0,
                "ZIO_CHECKSUM_FLETCHER_4", "ZIO_COMPRESS_LZJB")
\* its first address is the corrupted copy
LeafB == Blkptr(<<Dva(1, 1, 0), Dva(0, 1, 0), Dva(2, 1, 0)>>, 1, 0, 0, "DMU_OT_PLAIN_FILE_CONTENTS", 0,
                "ZIO_CHECKSUM_FLETCHER_2", "ZIO_COMPRESS_OFF")
LeafGz == Blkptr(Mirrored(2), 2, 0, 0, "DMU_OT_PLAIN_FILE_CONTENTS", 0,
                 "ZIO_CHECKSUM_SHA256", "ZIO_COMPRESS_GZIP_6")
LeafBig == Blkptr(Mirrored(0), 0, 0, MaxSizeField, "DMU_OT_PLAIN_FILE_CONTENTS", 0,
                  "ZIO_CHECKSUM_FLETCHER_4", "ZIO_COMPRESS_LZJB")
\* stored uncompressed, its physical size not its logical size
LeafRaw == Blkptr(Mirrored(1), 1, MaxSizeField, 0, "DMU_OT_PLAIN_FILE_CONTENTS", 0,
                  "ZIO_CHECKSUM_OFF", "ZIO_COMPRESS_OFF")
LeafBad == Blkptr(Nowhere(1), 1, 0, 0, "DMU_OT_PLAIN_FILE_CONTENTS", 0,
                  "ZIO_CHECKSUM_FLETCHER_4", "ZIO_COMPRESS_LZJB")
Ind1 == Blkptr(Mirrored(3), 3, 0, 0, "DMU_OT_PLAIN_FILE_CONTENTS", 1,
               "ZIO_CHECKSUM_FLETCHER_4", "ZIO_COMPRESS_LZJB")
Ind2 == Blkptr(Mirrored(4), 4, 0, 0, "DMU_OT_PLAIN_FILE_CONTENTS", 2,
               "ZIO_CHECKSUM_FLETCHER_4", "ZIO_COMPRESS_LZJB")
IndBad == Blkptr(Nowhere(3), 3, 0, 0, "DMU_OT_PLAIN_FILE_CONTENTS", 1,
                 "ZIO_CHECKSUM_FLETCHER_4", "ZIO_COMPRESS_LZJB")
\* a level-1 descriptor of sector 5, whose array is stored in gzip format
IndGz == Blkptr(Mirrored(5), 5, 0, 0, "DMU_OT_PLAIN_FILE_CONTENTS", 1,
                "ZIO_CHECKSUM_FLETCHER_4", "ZIO_COMPRESS_GZIP_6")

\* the array sector 5 holds
GzArray == <<LeafA, Hole, LeafB, Hole>>

\* the arrays the level-1 sector may hold, slot by slot
Level1Arrays ==
    { <<a, b, c, d>> : a \in {Hole, LeafA, LeafB, LeafBad, LeafGz, LeafRaw},
                       b \in {Hole, LeafA, LeafGz},
                       c \in {Hole, LeafBig},
                       d \in {Hole, LeafB} }

\* the array the level-2 sector holds
Level2Array == <<Ind1, Hole, Ind1, Hole>>

Worlds ==
    { (4 :> [codec |-> "lzjb", bps |-> a]) @@ (5 :> [codec |-> "lzjb", bps |-> Level2Array])
          @@ (6 :> [codec |-> "gzip", bps |-> GzArray]) :
        a \in Level1Arrays }

RootChoices == {Hole, LeafA, LeafGz, LeafBad, Ind1, Ind2, IndBad}

RECURSIVE SeqsUpTo(_, _)
\* the sequences over S of length at most n
SeqsUpTo(S, n) ==
    IF n = 0 THEN {<<>>}
    ELSE LET shorter == SeqsUpTo(S, n - 1)
         IN  shorter \cup { Append(q, x) : q \in shorter, x \in S }

-----------------------------------------------------------------------------
(* Scenario: one BlockStream, constructed over arg, read by ReadNext and   *)
(* ReadToEnd                                                               *)

\* the descriptor arrays a stream is constructed over: the short ones, and
\* two that begin with the gzip-stored level-1 descriptor
StreamRoots == SeqsUpTo(RootChoices, MaxRoots) \cup {<<IndGz>>, <<IndGz, LeafA>>}

\* the length of a buffer that holds four blkptr_t and half of a fifth
OddLen == SectorSize + BlkptrSize \div 2

\* the vector the caller passes to its first ReadNext: empty, or of OddLen
\* bytes when the stream begins with the gzip-stored descriptor
CallerBuff(bps) == IF bps # <<>> /\ bps[1] = IndGz THEN Stale(OddLen) ELSE <<>>

InitStream ==
    /\ pc = "stream"
    /\ slots \in Worlds
    /\ arg \in StreamRoots
    /\ m_bpl = Insert(<<>>, 0, arg).bpl
    /\ heap = Insert(<<>>, 0, arg).heap
    /\ buff = CallerBuff(arg)
    /\ ret = "none"
    /\ out = <<>>
    /\ io = <<>>
    /\ failed = FALSE
    /\ ub = "none"
    /\ dst = <<>>
    /\ NoFile

\* a ReadNext call returns; after m_bpl.front() of an empty queue, with
\* either value
StreamReadNext ==
    /\ pc \in {"stream", "read_to_end"}
    /\ Len(out) < MaxCalls
    /\ LET r == ReadNext(m_bpl, heap, buff)
       IN  \E v \in IF r.ub = "front_of_empty" THEN BOOLEAN ELSE {r.ret} :
               /\ pc' = IF r.ub = "front_of_empty" THEN "corrupt" ELSE pc
               /\ m_bpl' = r.bpl
               /\ heap' = r.heap
               /\ buff' = r.buff
               /\ ret' = Bool(v)
               /\ out' = Append(out, [ret |-> Bool(v), buff |-> r.buff])
               /\ io' = r.io
               /\ failed' = r.fail
               /\ ub' = FirstUb(ub, r.ub)
    /\ UNCHANGED <<slots, arg, m_psize, m_lsize, m_cache, dst, call>>

\* a ReadNext call ends the process
StreamReadNextCrashes ==
    /\ pc \in {"stream", "read_to_end"}
    /\ Len(out) < MaxCalls
    /\ LET r == ReadNext(m_bpl, heap, buff)
       IN  /\ r.ub # "none"
           /\ pc' = "crashed"
           /\ ub' = FirstUb(ub, r.ub)
    /\ UNCHANGED <<slots, arg, m_bpl, heap, buff, ret, out, m_psize, m_lsize, m_cache, dst, io, failed,
                   call>>

\* a ReadToEnd call returns
StreamReadToEnd ==
    /\ pc = "stream"
    /\ LET r == ReadToEnd(m_bpl, heap)
       IN  /\ pc' = IF r.ub = "front_of_empty" THEN "corrupt" ELSE "read_to_end"
           /\ m_bpl' = r.bpl
           /\ heap' = r.heap
           /\ dst' = r.dst
           /\ ret' = Bool(r.ret)
           /\ io' = r.io
           /\ failed' = r.fail
           /\ ub' = FirstUb(ub, r.ub)
    /\ UNCHANGED <<slots, arg, buff, out, m_psize, m_lsize, m_cache, call>>

\* a ReadToEnd call ends the process
StreamReadToEndCrashes ==
    /\ pc = "stream"
    /\ LET r == ReadToEnd(m_bpl, heap)
       IN  /\ r.ub # "none"
           /\ pc' = "crashed"
           /\ ub' = FirstUb(ub, r.ub)
    /\ UNCHANGED <<slots, arg, m_bpl, heap, buff, ret, out, m_psize, m_lsize, m_cache, dst, io, failed,
                   call>>

NextStream ==
    \/ StreamReadNext
    \/ StreamReadNextCrashes
    \/ StreamReadToEnd
    \/ StreamReadToEndCrashes

SpecStream == InitStream /\ [][NextStream]_vars

-----------------------------------------------------------------------------
(* Scenario: one BlockFile, constructed over arg, read by BlockFile::Read  *)

\* the arrays the level-1 sector may hold under a file
FileLevel1Arrays ==
    { <<a, b, c, Hole>> : a \in {Hole, LeafA, LeafBad, LeafRaw, LeafGz},
                          b \in {Hole, LeafB},
                          c \in {Hole, LeafBig} }

FileWorlds ==
    { (4 :> [codec |-> "lzjb", bps |-> a]) @@ (5 :> [codec |-> "lzjb", bps |-> Level2Array])
          @@ (6 :> [codec |-> "gzip", bps |-> GzArray]) :
        a \in FileLevel1Arrays }

FileRootChoices == {Hole, LeafA, Ind1, IndBad}

\* the descriptor arrays a file is constructed over: the short ones, a
\* two-level tree, and an unresolvable indirect descriptor between two leaves
FileRoots == SeqsUpTo(FileRootChoices, MaxRoots) \cup {<<Ind2>>, <<LeafA, IndBad, LeafA>>}

InitFile ==
    /\ pc = "new"
    /\ slots \in FileWorlds
    /\ arg \in FileRoots
    /\ m_bpl = <<>>
    /\ heap = 0
    /\ buff = <<>>
    /\ ret = "none"
    /\ out = <<>>
    /\ io = <<>>
    /\ failed = FALSE
    /\ ub = "none"
    /\ dst = <<>>
    /\ NoFile

\* the values the never assigned m_cache.bp may hold: NULL, the address of
\* no descriptor, the address of the first descriptor of m_bpl
Uninitialized(bpl) == {0, -1} \cup {bpl[i].ptr : i \in DOMAIN bpl \cap {1}}

\* the constructor returns (at its end, or at the return of line 269) or,
\* having written past a buffer, ends the process
Constructed(r) ==
    \/ /\ pc' = IF r.done THEN "file" ELSE "file_failed"
       /\ m_bpl' = r.bpl
       /\ heap' = r.heap
       /\ m_psize' = r.psize
       /\ m_lsize' = r.lsize
       /\ \E p \in IF r.done THEN {0} ELSE Uninitialized(r.bpl) :
              m_cache' = [bp |-> p, buff |-> <<>>]
       /\ io' = r.io
       /\ failed' = r.fail
       /\ ub' = r.ub
       /\ UNCHANGED <<slots, arg, buff, ret, out, dst, call>>
    \/ /\ r.ub # "none"
       /\ pc' = "crashed"
       /\ io' = r.io
       /\ ub' = r.ub
       /\ UNCHANGED <<slots, arg, m_bpl, heap, buff, ret, out, m_psize, m_lsize, m_cache, dst, failed, call>>

\* the constructor went through m_bpl.front() of an empty queue: the
\* process ends, or goes on with an object in no defined state
Unconstructed(r) ==
    /\ pc' \in {"crashed", "corrupt"}
    /\ io' = r.io
    /\ ub' = r.ub
    /\ UNCHANGED <<slots, arg, m_bpl, heap, buff, ret, out, m_psize, m_lsize, m_cache, dst, failed, call>>

FileConstruct ==
    /\ pc = "new"
    /\ BlockFile(arg).ub # "front_of_empty"
    /\ Constructed(BlockFile(arg))

FileConstructUndefined ==
    /\ pc = "new"
    /\ BlockFile(arg).ub = "front_of_empty"
    /\ Unconstructed(BlockFile(arg))

\* the offsets of a call: in the first leaf, at the first leaf boundary, at
\* the last byte and at the end of the file, and 2^64 - 1
FileOffsets(total) == {0, 1, SectorSize, total - 1, total, -1}

\* the sizes of a call: none, within a leaf, a whole leaf, over two boundaries
FileSizes == {0, 1, SectorSize, 2 * SectorSize + 1}

\* the call returns r.ret or, having read or written past a buffer, ends
\* the process
FileReadEnds(size, offset, r) ==
    \/ /\ call' = [size |-> size, offset |-> offset]
       /\ m_cache' = r.cache
       /\ dst' = r.dst
       /\ ret' = Bool(r.ret)
       /\ io' = r.io
       /\ failed' = r.fail
       /\ ub' = FirstUb(ub, r.ub)
       /\ UNCHANGED <<pc, slots, arg, m_bpl, heap, buff, out, m_psize, m_lsize>>
    \/ /\ r.ub # "none"
       /\ pc' = "crashed"
       /\ call' = [size |-> size, offset |-> offset]
       /\ io' = r.io
       /\ ub' = FirstUb(ub, r.ub)
       /\ UNCHANGED <<slots, arg, m_bpl, heap, buff, ret, out, m_psize, m_lsize, m_cache, dst, failed>>

\* a BlockFile::Read call
FileRead ==
    /\ pc \in {"file", "file_failed"}
    /\ \E size \in FileSizes, offset \in FileOffsets(m_lsize) :
           FileReadEnds(size, offset, BlockFile_Read(m_bpl, m_cache, m_lsize, size, offset))

NextFile ==
    \/ FileConstruct
    \/ FileConstructUndefined
    \/ FileRead

SpecFile == InitFile /\ [][NextFile]_vars

-----------------------------------------------------------------------------
(* Scenario: one BlockReader::Insert call on one pending queue *)

\* the arrays Insert is given hold at most MaxCount descriptors
MaxCount == 3

InitInsert ==
    /\ pc = "insert"
    /\ slots = <<>>
    /\ \E q \in SeqsUpTo({LeafA, LeafB, Ind1}, MaxRoots) :
           /\ m_bpl = Insert(<<>>, 0, q).bpl
           /\ heap = Insert(<<>>, 0, q).heap
    /\ arg \in SeqsUpTo({Hole, LeafA, LeafGz, Ind1}, MaxCount)
    /\ buff = <<>>
    /\ ret = "none"
    /\ out = <<>>
    /\ io = <<>>
    /\ failed = FALSE
    /\ ub = "none"
    /\ dst = <<>>
    /\ NoFile

\* Insert(bp, count) returns
InsertReturns ==
    /\ pc = "insert"
    /\ pc' = "inserted"
    /\ m_bpl' = Insert(m_bpl, heap, arg).bpl
    /\ heap' = Insert(m_bpl, heap, arg).heap
    /\ UNCHANGED <<slots, arg, buff, ret, out, m_psize, m_lsize, m_cache, dst, io, failed, call, ub>>

NextInsert == InsertReturns

SpecInsert == InitInsert /\ [][NextInsert]_vars

-----------------------------------------------------------------------------
(* Scenario: either object, under every operation *)

InitAll == InitStream \/ InitFile

NextAll == NextStream \/ NextFile

SpecAll == InitAll /\ [][NextAll]_vars

-----------------------------------------------------------------------------
(* What a resolution is to deliver (spec 4.1) *)

SupportedComps == {"ZIO_COMPRESS_ON", "ZIO_COMPRESS_LZJB", "ZIO_COMPRESS_OFF",
                   "ZIO_COMPRESS_EMPTY", "ZIO_COMPRESS_ZLE"} \cup GzipCodes

\* address i of bp names a device of the pool, the bytes read there pass the
\* checksum, and the compression code is one Decompress decodes
Qualifies(bp, i) ==
    /\ bp.blk_dva[i].vdev \in VdevIds
    /\ Verify(AddrRead(bp, i).buff, bp.cksum_type, bp.cksum)
    /\ bp.comp_type \in SupportedComps

QualSet(bp) == {i \in 1 .. NumDvas : Qualifies(bp, i)}

MinOf(S) == CHOOSE m \in S : \A x \in S : m <= x

\* decompress(algorithm, source, outSize): the bytes the raw bytes src decode to
Payload(src, lsize, comp_type) ==
    CASE comp_type \in {"ZIO_COMPRESS_ON", "ZIO_COMPRESS_LZJB"} -> Decoded("lzjb", src, lsize)
      [] comp_type \in GzipCodes -> Decoded("gzip", src, lsize)
      [] comp_type = "ZIO_COMPRESS_ZLE" -> Decoded("zle", src, lsize)
      [] OTHER -> src

\* the decoded bytes of address i of bp
PayloadAt(bp, i) == Payload(AddrRead(bp, i).buff, LSize(bp), bp.comp_type)

-----------------------------------------------------------------------------
(* Claims on BlockReader::Read, under SpecResolve *)

\* C1: Read tries the three addresses in index order and returns success with
\* the decoded bytes of the lowest-indexed address whose device exists, whose
\* raw bytes verify and whose decompression succeeds; it returns failure
\* exactly when no address qualifies.
C1_LowestQualifyingAddress ==
    pc \in {"resolved", "crashed"} =>
        /\ pc = "resolved"
        /\ IF QualSet(arg) = {}
           THEN ret = "false"
           ELSE ret = "true" /\ buff = PayloadAt(arg, MinOf(QualSet(arg)))

\* The same, for the compression codes whose branch of Decompress sizes dst
\* itself (ON, LZJB, OFF, EMPTY, and the codes Decompress rejects).
ReadOrderWhenDstSized ==
    (pc \in {"resolved", "crashed"} /\ arg.comp_type \notin GzipCodes \cup {"ZIO_COMPRESS_ZLE"}) =>
        /\ pc = "resolved"
        /\ IF QualSet(arg) = {}
           THEN ret = "false"
           ELSE ret = "true" /\ buff = PayloadAt(arg, MinOf(QualSet(arg)))

\* the first address matches no device, the second fails its checksum, the
\* third verifies and decompresses, and the call has returned
ThirdAddressServes ==
    /\ pc = "resolved"
    /\ arg.blk_dva[1].vdev \notin VdevIds
    /\ arg.blk_dva[2].vdev \in VdevIds
    /\ ~Verify(AddrRead(arg, 2).buff, arg.cksum_type, arg.cksum)
    /\ QualSet(arg) = {3}
    /\ ret = "true"

\* C8, stated of the calls that write within dst: an address whose gang
\* flag is set is rejected: no bytes are read from it, verified,
\* decompressed or returned, and a descriptor whose only valid copies are at
\* gang-flagged addresses fails resolution.
C8_GangAddressRejected ==
    (pc = "resolved" /\ ub = "none") =>
        /\ \A j \in 1 .. Len(io) : io[j].gang = 0
        /\ ret = "true" => \E i \in QualSet(arg) : arg.blk_dva[i].gang = 0

-----------------------------------------------------------------------------
(* Claims on BlockStream, under SpecStream *)

Resolvable(bp) == QualSet(bp) # {}

\* the decoded bytes of bp, from its lowest qualifying address
PayloadOf(bp) == PayloadAt(bp, MinOf(QualSet(bp)))

\* the array a resolvable indirect descriptor expands to
ChildrenOf(bp) == Blkptrs(PayloadOf(bp))

\* arg is one indirect descriptor that expands to leaf descriptors and holes
TwoLevel ==
    /\ Len(arg) = 1
    /\ arg[1].lvl = 1
    /\ IsLive(arg[1])
    /\ Resolvable(arg[1])
    /\ \A i \in 1 .. Len(ChildrenOf(arg[1])) : ChildrenOf(arg[1])[i].lvl = 0

RECURSIVE FlatRun(_, _, _, _)
FlatCall(n, r) ==
    <<[ret |-> Bool(r.ret), buff |-> r.buff, ub |-> r.ub]>> \o FlatRun(r.bpl, r.heap, r.buff, n - 1)
\* the first n ReadNext calls on a stream whose queue is bpl and whose
\* caller's buffer is b
FlatRun(bpl, h, b, n) == IF n = 0 THEN <<>> ELSE FlatCall(n, ReadNext(bpl, h, b))

\* the first n ReadNext calls on BlockStream(pool, bps, Len(bps))
StreamRun(bps, n) == FlatRun(Insert(<<>>, 0, bps).bpl, Insert(<<>>, 0, bps).heap, <<>>, n)

\* C3: for a root that is one indirect descriptor expanding to K live leaves,
\* the payloads and the exhaustion successive ReadNext calls return are those
\* of a BlockStream built from the K leaves as a flat list.
C3_TreeReadsAsFlatList ==
    (pc \in {"stream", "corrupt", "crashed"} /\ TwoLevel) =>
        /\ pc = "stream"
        /\ LET flat == StreamRun(SelectSeq(ChildrenOf(arg[1]), IsLive), Len(out))
           IN  \A j \in 1 .. Len(out) :
                   /\ flat[j].ub = "none"
                   /\ out[j].ret = flat[j].ret
                   /\ out[j].ret = "true" => out[j].buff = flat[j].buff

\* C4: over a flat list of N resolvable level-0 descriptors exactly the first
\* N ReadNext calls return true, with the N payloads in order; every later
\* call returns false and the queue stays empty.
C4_FlatListInOrderThenExhausted ==
    (/\ pc \in {"stream", "corrupt", "crashed"}
     /\ \A i \in 1 .. Len(arg) : arg[i].lvl = 0 /\ IsLive(arg[i]) /\ Resolvable(arg[i])) =>
        /\ pc = "stream"
        /\ \A j \in 1 .. Len(out) :
               IF j <= Len(arg)
               THEN out[j].ret = "true" /\ out[j].buff = PayloadOf(arg[j])
               ELSE out[j].ret = "false"
        /\ Len(out) >= Len(arg) => m_bpl = <<>>

\* C9: ReadToEnd reports failure whenever the resolution of a descriptor
\* failed during the traversal, and success only when every leaf payload has
\* been appended to dst.
C9_ReadToEndReportsFailure ==
    (pc = "read_to_end" /\ ret = "true") => (~failed /\ m_bpl = <<>>)

-----------------------------------------------------------------------------
(* Claims on BlockFile, under SpecFile *)

RECURSIVE LeavesOf(_)
\* the level-0 descriptors of the trees under bps, left to right, slots of
\* type DMU_OT_NONE left out
LeavesOf(bps) ==
    IF bps = <<>> THEN <<>>
    ELSE (IF Head(bps).type = "DMU_OT_NONE" THEN <<>>
          ELSE IF Head(bps).lvl = 0 THEN <<Head(bps)>>
          ELSE LeavesOf(ChildrenOf(Head(bps)))) \o LeavesOf(Tail(bps))

RECURSIVE LogicalBytes(_)
\* the sum over the entries of a leaf index of (lsize + 1) * 512
LogicalBytes(bpl) ==
    IF bpl = <<>> THEN 0 ELSE (Head(bpl).bp.lsize + 1) * 512 + LogicalBytes(Tail(bpl))

IndexIs(leaves) ==
    /\ Len(m_bpl) = Len(leaves)
    /\ \A i \in 1 .. Len(m_bpl) : m_bpl[i].bp = leaves[i] /\ m_bpl[i].bp.lvl = 0
    /\ \A i, j \in 1 .. Len(m_bpl) : i # j => m_bpl[i].ptr # m_bpl[j].ptr

\* C5: after a construction that ran to its end, over a root indirect
\* descriptor expanding to K live leaves (and over every other array of
\* roots), the leaf index holds exactly those K descriptors, all of level 0,
\* in left-to-right tree order, and m_lsize is the sum over the index of
\* (lsize + 1) * 512.
C5_LeafIndexAndTotal ==
    pc = "file" =>
        /\ IndexIs(LeavesOf(arg))
        /\ m_lsize = LogicalBytes(m_bpl)

\* a file constructed over one indirect root, its index of three leaves or more
IndexOfThreeLeaves ==
    /\ pc = "file"
    /\ Len(arg) = 1
    /\ arg[1].lvl > 0
    /\ Len(m_bpl) >= 3
    /\ m_lsize >= 3 * SectorSize

\* the bytes ReadToEnd delivers over a stream built from the same descriptors
StreamBytes == ReadToEnd(Insert(<<>>, 0, arg).bpl, Insert(<<>>, 0, arg).heap).dst

\* a BlockFile::Read call has returned
FileReadReturned == pc \in {"file", "file_failed"} /\ ret # "none"

\* C2, stated of the files whose leaves all resolve, of the ranges of one
\* byte or more, and of the calls that stay within their buffers: on a
\* constructed BlockFile, for every offset and size with offset + size
\* within the total logical size, Read returns success and fills dst with
\* the bytes [offset, offset + size) of what ReadToEnd delivers over a
\* stream built from the same descriptors.
C2_ReadIsSliceOfReadToEnd ==
    (/\ pc = "file" /\ ret # "none" /\ ub = "none"
     /\ \A i \in 1 .. Len(m_bpl) : Resolvable(m_bpl[i].bp)
     /\ call.size > 0 /\ call.offset >= 0 /\ call.offset + call.size <= m_lsize) =>
        /\ ret = "true"
        /\ dst = BSlice(StreamBytes, call.offset, call.size)

\* whether offset + size, as the sum of the integers, exceeds total
Exceeds(offset, size, total) == offset < 0 \/ offset + size > total

ReadAtEndRefused ==
    /\ pc = "file"
    /\ m_lsize > 0
    /\ call.offset = m_lsize
    /\ call.size > 0
    /\ ret = "false"

\* C10, stated of the reads of one byte or more that stay within their
\* buffers: after a construction in which the resolution of an indirect
\* descriptor failed, every Read, for every size and offset, returns failure
\* without resolving a block and without writing to dst.
C10_FailedFileRefusesReads ==
    (pc = "file_failed" /\ ret # "none" /\ ub = "none" /\ call.size > 0) =>
        /\ ret = "false"
        /\ io = <<>>
        /\ dst = <<>>

-----------------------------------------------------------------------------
(* Claims on both objects, under SpecAll *)

RECURSIVE Kept(_)
\* bps without its slots of type DMU_OT_NONE
Kept(bps) ==
    IF bps = <<>> THEN <<>>
    ELSE (IF Head(bps).type = "DMU_OT_NONE" THEN <<>> ELSE <<Head(bps)>>) \o Kept(Tail(bps))

\* C7: after construction and after every ReadNext, ReadToEnd and
\* BlockFile::Read, no descriptor of type DMU_OT_NONE is in the pending
\* queue or in the leaf index; Insert drops such descriptors and leaves the
\* descriptors around them as they were: the queue of a new stream is the
\* constructor's array without them, in order.
C7_NoNoneDescriptorQueued ==
    /\ \A i \in 1 .. Len(m_bpl) : m_bpl[i].bp.type # "DMU_OT_NONE"
    /\ (pc = "stream" /\ out = <<>>) =>
           /\ Len(m_bpl) = Len(Kept(arg))
           /\ \A i \in 1 .. Len(m_bpl) : m_bpl[i].bp = Kept(arg)[i]

\* a leaf index built from an array whose first slot is of type DMU_OT_NONE
\* and from a tree with such slots
HolesDropped ==
    /\ pc = "file"
    /\ Len(arg) = 2
    /\ arg[1].type = "DMU_OT_NONE"
    /\ arg[2].lvl = 1
    /\ \E i \in 1 .. 4 : slots[4].bps[i].type = "DMU_OT_NONE"
    /\ Len(m_bpl) >= 2

-----------------------------------------------------------------------------
(* Claims on the failures of BlockFile::Read, under SpecFile *)

\* C11, stated of the calls that stay within their buffers: when Read
\* returns failure because a leaf of the range did not resolve, the call has
\* modified no byte of dst, also when the failing leaf is the second or a
\* later leaf of the range.
C11_FailedReadLeavesDstAlone ==
    (pc = "file" /\ ret = "false" /\ failed /\ ub = "none") => dst = <<>>

-----------------------------------------------------------------------------
(* Claims on the expansion of indirect descriptors, under SpecStream *)

\* what Read delivers for the first descriptor of the stream, into the
\* caller's vector
FirstPayload == Read(CallerBuff(arg), arg[1]).dst

\* the first descriptor of the stream is indirect and resolves, within the
\* caller's vector, to a buffer whose length is no multiple of sizeof(blkptr_t)
OddPayload ==
    /\ arg # <<>>
    /\ arg[1].type # "DMU_OT_NONE"
    /\ arg[1].lvl > 0
    /\ Read(CallerBuff(arg), arg[1]).ret
    /\ Read(CallerBuff(arg), arg[1]).ub = "none"
    /\ BLen(FirstPayload) % BlkptrSize # 0

\* C12: when the resolved payload of an indirect descriptor has a length
\* that is no whole multiple of sizeof(blkptr_t), ReadNext returns false and
\* no child descriptor parsed from that payload is inserted into the queue
\* (no descriptor is allocated beyond those of the constructor).
C12_OddPayloadIsHardFailure ==
    (pc = "stream" /\ Len(out) >= 1 /\ OddPayload) =>
        /\ out[1].ret = "false"
        /\ heap = Len(Kept(arg))

-----------------------------------------------------------------------------
(* Claims on BlockReader::Insert, under SpecInsert *)

\* the descriptors of the queue entries from..to
BpsOf(bpl, from, to) == [i \in 1 .. (to - from + 1) |-> bpl[from + i - 1].bp]

\* q is the queue after Insert(arg) on the queue p: the live descriptors of
\* arg, in array order and newly allocated, then p as it was
InsertedAhead(p, q) ==
    /\ Len(q) = Len(Kept(arg)) + Len(p)
    /\ BpsOf(q, 1, Len(Kept(arg))) = Kept(arg)
    /\ SubSeq(q, Len(Kept(arg)) + 1, Len(q)) = p
    /\ \A i \in 1 .. Len(Kept(arg)) : \A j \in 1 .. Len(p) : q[i].ptr # p[j].ptr

\* C13: Insert on an empty queue appends the live descriptors in array
\* order; on a non-empty queue it places them as one contiguous run at the
\* front, in array order, ahead of every previously pending descriptor, and
\* leaves the previously pending descriptors in their order.
C13_InsertOrder ==
    [][(pc = "insert" /\ pc' = "inserted") => InsertedAhead(m_bpl, m_bpl')]_vars

\* an array of three slots, one of them of type DMU_OT_NONE, has been
\* inserted ahead of two pending descriptors
TwoInsertedAheadOfTwo ==
    /\ pc = "inserted"
    /\ Len(arg) = 3
    /\ Len(Kept(arg)) = 2
    /\ Len(m_bpl) = 4
    /\ BpsOf(m_bpl, 1, 2) = Kept(arg)

-----------------------------------------------------------------------------
(* Claims on the device reads and the size of dst, under SpecResolve *)

\* C14, stated of the calls that write within dst: a device read that failed
\* is abandoned; its buffer is never verified, decompressed or returned, so
\* the device read that serves a successful call (the last one of the call)
\* has succeeded, and a call none of whose device reads succeeded fails.
C14_FailedDeviceReadAbandoned ==
    (pc = "resolved" /\ ub = "none" /\ ret = "true") =>
        /\ io # <<>>
        /\ io[Len(io)].ok

\* C15, stated of the calls that write within dst: when Read returns
\* success dst holds exactly (lsize + 1) * 512 bytes, for every compression
\* code; for OFF and EMPTY that is only when psize and lsize agree.
C15_DstHoldsLogicalSize ==
    (pc = "resolved" /\ ub = "none" /\ ret = "true") =>
        /\ BLen(buff) = (arg.lsize + 1) * 512
        /\ arg.comp_type \in {"ZIO_COMPRESS_OFF", "ZIO_COMPRESS_EMPTY"} => arg.psize = arg.lsize

\* the same for the codes whose branch of Decompress resizes dst
DstSizedByLzjb ==
    (pc = "resolved" /\ ret = "true" /\ arg.comp_type \in {"ZIO_COMPRESS_ON", "ZIO_COMPRESS_LZJB"}) =>
        (ub = "none" /\ BLen(buff) = (arg.lsize + 1) * 512)

-----------------------------------------------------------------------------
(* Claims on the stream after a failure, under SpecStream *)

\* C16, stated of the calls that write within buff: after a ReadNext call
\* has returned false, every later ReadNext on the stream returns false; the
\* stream does not resume at the next pending sibling of a descriptor that
\* failed to resolve.
C16_NoDataAfterFailure ==
    (pc = "stream" /\ ub = "none") =>
        \A i, j \in 1 .. Len(out) : (i < j /\ out[i].ret = "false") => out[j].ret = "false"

-----------------------------------------------------------------------------
(* Claims on the cache of BlockFile, under SpecFile *)

RECURSIVE LeafOf(_, _, _)
\* the index of the leaf that holds byte b of the file, from leaf i on, b
\* counted from the start of leaf i (0: none)
LeafOf(bpl, i, b) ==
    IF i > Len(bpl) THEN 0
    ELSE IF b < (bpl[i].bp.lsize + 1) * 512 THEN i
    ELSE LeafOf(bpl, i + 1, b - (bpl[i].bp.lsize + 1) * 512)

\* the first and the last leaf of the range of a call
FirstLeaf(bpl, c) == LeafOf(bpl, 1, c.offset)
LastLeaf(bpl, c) == IF c.size = 0 THEN FirstLeaf(bpl, c) ELSE LeafOf(bpl, 1, c.offset + c.size - 1)

RECURSIVE ReadsOnce(_, _, _, _)
\* the device reads of one resolution of r's descriptor, then those of the leaves after leaf i
ReadsThen(bpl, i, last, r) ==
    IF r.ret THEN r.io \o ReadsOnce(bpl, i + 1, last, bpl[i].ptr) ELSE r.io

\* the device reads of a call that resolves each of the leaves i .. last
\* once, but for a leaf that is the cached one (cached: the identity the
\* cache holds), and ends at the first that fails
ReadsOnce(bpl, i, last, cached) ==
    IF i > last THEN <<>>
    ELSE IF bpl[i].ptr = cached THEN ReadsOnce(bpl, i + 1, last, cached)
    ELSE ReadsThen(bpl, i, last, Read(<<>>, bpl[i].bp))

\* the range of call c lies within the file
InFile(c) == c.offset >= 0 /\ c.offset + c.size <= m_lsize /\ c.offset < m_lsize

\* C17: the cache holds one decoded leaf keyed by descriptor identity: a
\* Read call resolves each leaf of its range at most once and does not
\* resolve a leaf whose identity is the cached one, so a Read whose range
\* lies inside the cached leaf performs no device read.
C17_CachedLeafNotResolved ==
    [][(pc = "file" /\ pc' = "file" /\ InFile(call')) =>
           io' = ReadsOnce(m_bpl, FirstLeaf(m_bpl, call'), LastLeaf(m_bpl, call'), m_cache.bp)]_vars

\* a Read of one byte or more has succeeded without a device read
ServedFromCache ==
    /\ pc = "file"
    /\ ub = "none"
    /\ call.size > 0
    /\ ret = "true"
    /\ io = <<>>
    /\ dst # <<>>
    /\ m_cache.bp # 0

-----------------------------------------------------------------------------
(* Claims on the pending queue, under SpecAll *)

\* C18: ReadNext and the constructor of BlockFile never take the front of,
\* or pop from, an empty pending queue: when an indirect descriptor that was
\* the last pending item expands to no live child, the operation ends with
\* a defined result.  C18, stated of roots that are not GZIP compressed.
C18_FrontOfNonEmptyQueue ==
    (ub = "front_of_empty" \/ pc = "corrupt") =>
        \E i \in DOMAIN arg : arg[i].comp_type \in GzipCodes

-----------------------------------------------------------------------------
(* Claims on the coherence of the cache, under SpecFile *)

\* m_cache.bp is null, or a descriptor of the leaf index whose resolved
\* payload is m_cache.buff
Coherent(cache, bpl) ==
    \/ cache.bp = 0
    \/ \E i \in DOMAIN bpl : /\ bpl[i].ptr = cache.bp
                             /\ Resolvable(bpl[i].bp)
                             /\ cache.buff = PayloadOf(bpl[i].bp)

\* C19: at the start and end of every BlockFile::Read call, whether it
\* returned success or failure, m_cache.bp is null or a descriptor of the
\* leaf index, and if non-null m_cache.buff is the resolved payload of
\* exactly that descriptor.  C19, stated of files whose construction ended
\* at line 290 and of calls free of undefined behaviour.
C19_CacheCoherent ==
    (pc = "file" /\ ub = "none") => Coherent(m_cache, m_bpl)

\* the leaf index holds no leaf in gzip or zle format
NoInPlaceLeaf == \A i \in DOMAIN m_bpl : m_bpl[i].bp.comp_type \notin GzipCodes \cup {"ZIO_COMPRESS_ZLE"}

\* The cache is coherent on a constructed file whose leaves are stored
\* uncompressed or in lzjb format, after failed calls too.
CoherentWithoutInPlace ==
    (pc = "file" /\ NoInPlaceLeaf) => Coherent(m_cache, m_bpl)

\* a call failed at a refresh and left the cache with its leaf
FailedRefreshKeepsLeaf ==
    /\ pc = "file"
    /\ NoInPlaceLeaf
    /\ failed
    /\ ret = "false"
    /\ m_cache.bp # 0

-----------------------------------------------------------------------------
(* Claims on the traversals, under SpecAll *)

RECURSIVE TreeResolves(_)
\* every live descriptor of the trees under bps resolves, to bytes decoded
\* into a buffer of its logical size
TreeResolves(bps) ==
    \A i \in 1 .. Len(bps) :
        IsLive(bps[i]) =>
            /\ Resolvable(bps[i])
            /\ bps[i].comp_type \notin GzipCodes \cup {"ZIO_COMPRESS_ZLE"}
            /\ bps[i].lvl > 0 => TreeResolves(ChildrenOf(bps[i]))

RECURSIVE PayloadsAfter(_, _)
\* acc followed by the payloads of the descriptors of leaves, in order
PayloadsAfter(acc, leaves) ==
    IF leaves = <<>> THEN acc
    ELSE PayloadsAfter(Cat(acc, PayloadOf(Head(leaves))), Tail(leaves))

\* a traversal of the trees under arg has ended, each leaf visited once and
\* nothing pending: the constructor with the leaves as its index, ReadToEnd
\* with their payloads in dst and an empty queue
VisitedEachLeafOnce ==
    \/ /\ pc = "file"
       /\ IndexIs(LeavesOf(arg))
    \/ /\ pc = "read_to_end"
       /\ m_bpl = <<>>
       /\ dst = PayloadsAfter(<<>>, LeavesOf(arg))

\* C20: over every finite descriptor tree the construction of a BlockFile
\* and ReadToEnd terminate; when every resolution succeeds they terminate
\* only after every leaf of the tree has been visited exactly once and the
\* pending queue is empty.
C20_TraversalVisitsEveryLeaf ==
    (/\ pc \in {"file", "file_failed", "read_to_end", "corrupt"}
     /\ out = <<>>
     /\ call = NoCall
     /\ TreeResolves(arg)) => VisitedEachLeafOnce

\* some indirect descriptor of the trees under bps expands to no live descriptor
RECURSIVE ExpandsToNone(_)
ExpandsToNone(bps) ==
    \E i \in 1 .. Len(bps) :
        /\ IsLive(bps[i])
        /\ bps[i].lvl > 0
        /\ Resolvable(bps[i])
        /\ \/ SelectSeq(ChildrenOf(bps[i]), IsLive) = <<>>
           \/ ExpandsToNone(ChildrenOf(bps[i]))

\* The traversals that end in a defined state have visited each leaf once,
\* and the others are over a tree with an indirect descriptor that expands
\* to no live descriptor.
VisitsEveryLeafUnlessNoneLive ==
    (/\ pc \in {"file", "file_failed", "read_to_end", "corrupt"}
     /\ out = <<>>
     /\ call = NoCall
     /\ TreeResolves(arg)) =>
        \/ VisitedEachLeafOnce
        \/ pc = "corrupt" /\ ub = "front_of_empty" /\ ExpandsToNone(arg)

\* ReadToEnd has ended over a two-level tree of three leaves or more
ReadToEndOverTree ==
    /\ pc = "read_to_end"
    /\ out = <<>>
    /\ TreeResolves(arg)
    /\ \E i \in 1 .. Len(arg) : arg[i].lvl > 1
    /\ Len(LeavesOf(arg)) >= 3
    /\ m_bpl = <<>>

====
